---------------------------- MODULE Spec2Model ----------------------------
(***************************************************************************)
(* Conveyor system of basket.py: baskets with a route of station names     *)
(* travel from an entry queue through single-slot stations, each with a    *)
(* bounded waiting zone, driven by ConveyorSystem.simulate_tick.  Station  *)
(* deadlines are readings of the wall clock (time.time()), so the clock is *)
(* part of the model: `now' advances by the real duration of each tick.    *)
(***************************************************************************)
EXTENDS Integers, Sequences, FiniteSets, TLC

(* ------------------------------ bounds -------------------------------- *)
MaxBaskets == 2
MaxProc == 2
MaxCapacity == 1
MaxTicks == 7
MaxJitter == 1
RefJitter == 0
TwinBaskets == 1
TwinTicks == 3
EpochShift == 5

(* ------------------------- values of the code ------------------------- *)
None == 0
NoTime == -1
NoStation == ""
NoDeadline == 0

VARIABLES
  station_names, processing_time, capacity,
  baskets_data, total_ticks, tick_interval, jitter,
  entry_queue, active_baskets, finished_baskets, log, is_entry_halted,
  current_basket, is_available, station_finish_time, queue,
  next_station_index, location, completed_stations, start_time, finish_time,
  raised,
  now, tick, pc,
  twin, clocks_agree

config == <<station_names, processing_time, capacity,
            baskets_data, total_ticks, tick_interval, jitter>>

sysvars == <<entry_queue, active_baskets, finished_baskets, log,
             is_entry_halted, current_basket, is_available,
             station_finish_time, queue, next_station_index, location,
             completed_stations, start_time, finish_time, raised>>

vars == <<config, sysvars, now, tick, pc, twin, clocks_agree>>

(* --------------------------- sequence helpers -------------------------- *)
Range(seq) == {seq[i] : i \in 1..Len(seq)}

RECURSIVE RemoveFirst(_, _)
RemoveFirst(seq, x) ==
  IF seq = <<>> THEN <<>>
  ELSE IF Head(seq) = x THEN Tail(seq)
  ELSE <<Head(seq)>> \o RemoveFirst(Tail(seq), x)

RECURSIVE SumTimes(_)
SumTimes(route) ==
  IF route = <<>> THEN 0
  ELSE processing_time[Head(route)] + SumTimes(Tail(route))

Count(seq, x) == Cardinality({i \in 1..Len(seq) : seq[i] = x})

(* ------------------------------ the state ------------------------------ *)
StationSet == Range(station_names)
Baskets == 1..Len(baskets_data)

Sys ==
  [entry_queue |-> entry_queue, active_baskets |-> active_baskets,
   finished_baskets |-> finished_baskets, log |-> log,
   is_entry_halted |-> is_entry_halted, current_basket |-> current_basket,
   is_available |-> is_available, station_finish_time |-> station_finish_time,
   queue |-> queue, next_station_index |-> next_station_index,
   location |-> location, completed_stations |-> completed_stations,
   start_time |-> start_time, finish_time |-> finish_time, raised |-> raised]

SetSys(s) ==
  /\ entry_queue' = s.entry_queue
  /\ active_baskets' = s.active_baskets
  /\ finished_baskets' = s.finished_baskets
  /\ log' = s.log
  /\ is_entry_halted' = s.is_entry_halted
  /\ current_basket' = s.current_basket
  /\ is_available' = s.is_available
  /\ station_finish_time' = s.station_finish_time
  /\ queue' = s.queue
  /\ next_station_index' = s.next_station_index
  /\ location' = s.location
  /\ completed_stations' = s.completed_stations
  /\ start_time' = s.start_time
  /\ finish_time' = s.finish_time
  /\ raised' = s.raised

(* ConveyorSystem.__init__ *)
Constructed ==
  [entry_queue |-> <<>>, active_baskets |-> <<>>, finished_baskets |-> <<>>,
   log |-> <<>>, is_entry_halted |-> FALSE,
   current_basket |-> [n \in StationSet |-> None],
   is_available |-> [n \in StationSet |-> TRUE],
   station_finish_time |-> [n \in StationSet |-> NoDeadline],
   queue |-> [n \in StationSet |-> <<>>],
   next_station_index |-> <<>>, location |-> <<>>,
   completed_stations |-> <<>>, start_time |-> <<>>, finish_time |-> <<>>,
   raised |-> FALSE]

(* ------------------------------- Basket -------------------------------- *)
next_station(s, b) ==
  IF s.next_station_index[b] < Len(baskets_data[b])
  THEN baskets_data[b][s.next_station_index[b] + 1]
  ELSE NoStation

update_route_stuck(s, b) == s

update_route(s, b) ==
  IF s.next_station_index[b] < Len(baskets_data[b])
  THEN [s EXCEPT !.completed_stations[b] =
                     Append(@, baskets_data[b][s.next_station_index[b] + 1]),
                 !.next_station_index[b] = @ + 1]
  ELSE s

(* ------------------------------- Station ------------------------------- *)
load_basket_absolute(s, name, b, t) ==
  IF ~s.is_available[name]
  THEN [s EXCEPT !.raised = TRUE]
  ELSE [s EXCEPT !.current_basket[name] = b,
                 !.is_available[name] = FALSE,
                 !.location[b] = <<"In_Station_", name>>,
                 !.station_finish_time[name] = processing_time[name]]

load_basket_stays_free(s, name, b, t) ==
  IF ~s.is_available[name]
  THEN [s EXCEPT !.raised = TRUE]
  ELSE [s EXCEPT !.current_basket[name] = b,
                 !.location[b] = <<"In_Station_", name>>,
                 !.station_finish_time[name] = t + processing_time[name]]

load_basket_no_deadline(s, name, b, t) ==
  IF ~s.is_available[name]
  THEN [s EXCEPT !.raised = TRUE]
  ELSE [s EXCEPT !.current_basket[name] = b,
                 !.is_available[name] = FALSE,
                 !.location[b] = <<"In_Station_", name>>]

load_basket(s, name, b, t) ==
  IF ~s.is_available[name]
  THEN [s EXCEPT !.raised = TRUE]
  ELSE [s EXCEPT !.current_basket[name] = b,
                 !.is_available[name] = FALSE,
                 !.location[b] = <<"In_Station_", name>>,
                 !.station_finish_time[name] = t + processing_time[name]]

finish_processing_keeps_basket(s, name, t) ==
  IF s.current_basket[name] # None /\ t >= s.station_finish_time[name]
  THEN LET b == s.current_basket[name]
           u == update_route(s, b)
       IN [sys |-> [u EXCEPT !.is_available[name] = TRUE,
                             !.location[b] = <<"Out_of_Station_", name>>],
           basket |-> b]
  ELSE [sys |-> s, basket |-> None]

finish_processing_no_wait(s, name, t) ==
  IF s.current_basket[name] # None
  THEN LET b == s.current_basket[name]
           u == update_route(s, b)
       IN [sys |-> [u EXCEPT !.current_basket[name] = None,
                             !.is_available[name] = TRUE,
                             !.location[b] = <<"Out_of_Station_", name>>],
           basket |-> b]
  ELSE [sys |-> s, basket |-> None]

finish_processing_one_early(s, name, t) ==
  IF s.current_basket[name] # None /\ t + 1 >= s.station_finish_time[name]
  THEN LET b == s.current_basket[name]
           u == update_route(s, b)
       IN [sys |-> [u EXCEPT !.current_basket[name] = None,
                             !.is_available[name] = TRUE,
                             !.location[b] = <<"Out_of_Station_", name>>],
           basket |-> b]
  ELSE [sys |-> s, basket |-> None]

finish_processing(s, name, t) ==
  IF s.current_basket[name] # None /\ t >= s.station_finish_time[name]
  THEN LET b == s.current_basket[name]
           u == update_route(s, b)
       IN [sys |-> [u EXCEPT !.current_basket[name] = None,
                             !.is_available[name] = TRUE,
                             !.location[b] = <<"Out_of_Station_", name>>],
           basket |-> b]
  ELSE [sys |-> s, basket |-> None]

(* ----------------------------- WaitingZone ----------------------------- *)
add_basket(s, name, b) ==
  IF Len(s.queue[name]) < capacity
  THEN [s EXCEPT !.queue[name] = Append(@, b),
                 !.location[b] = <<"Waiting_", name>>]
  ELSE s

get_next_basket_peek(s, name) ==
  IF s.queue[name] # <<>>
  THEN [sys |-> s, basket |-> Head(s.queue[name])]
  ELSE [sys |-> s, basket |-> None]

get_next_basket(s, name) ==
  IF s.queue[name] # <<>>
  THEN [sys |-> [s EXCEPT !.queue[name] = Tail(@)],
        basket |-> Head(s.queue[name])]
  ELSE [sys |-> s, basket |-> None]

is_full(s, name) == Len(s.queue[name]) >= capacity

(* ---------------------------- ConveyorSystem --------------------------- *)
Event(kind, b, name) == <<kind, b, name>>

Logged(s, e) == [s EXCEPT !.log = Append(@, e)]

RECURSIVE initialize_baskets(_, _, _)
initialize_baskets(s, b, t) ==
  IF b > Len(baskets_data)
  THEN Logged(s, Event("INIT", Len(s.active_baskets), NoStation))
  ELSE initialize_baskets(
         [s EXCEPT !.entry_queue = Append(@, b),
                   !.active_baskets = Append(@, b),
                   !.next_station_index = Append(@, 0),
                   !.location = Append(@, <<"Entry Point">>),
                   !.completed_stations = Append(@, <<>>),
                   !.start_time = Append(@, t),
                   !.finish_time = Append(@, NoTime)],
         b + 1, t)

detect_and_manage_collision_keeps_active(s, b, t) ==
  LET target == next_station(s, b) IN
  IF target = NoStation
  THEN [s EXCEPT !.finish_time[b] = t,
                 !.log = Append(@, Event("DONE", b, NoStation)),
                 !.finished_baskets = Append(@, b)]
  ELSE IF target \notin StationSet
  THEN Logged(s, Event("ERROR", b, target))
  ELSE IF s.is_available[target]
  THEN LET u == load_basket(s, target, b, t) IN
       IF u.raised THEN u
       ELSE [u EXCEPT !.log = Append(@, Event("MOVE", b, target)),
                      !.is_entry_halted = FALSE]
  ELSE IF ~is_full(s, target)
  THEN [add_basket(s, target, b)
          EXCEPT !.log = Append(@, Event("WAIT", b, target)),
                 !.is_entry_halted = FALSE]
  ELSE [s EXCEPT !.is_entry_halted = TRUE,
                 !.log = Append(@, Event("HALT", b, target))]

detect_and_manage_collision_halt_forgets(s, b, t) ==
  LET target == next_station(s, b) IN
  IF target = NoStation
  THEN [s EXCEPT !.finish_time[b] = t,
                 !.log = Append(@, Event("DONE", b, NoStation)),
                 !.active_baskets = RemoveFirst(@, b),
                 !.finished_baskets = Append(@, b)]
  ELSE IF target \notin StationSet
  THEN Logged(s, Event("ERROR", b, target))
  ELSE IF s.is_available[target]
  THEN LET u == load_basket(s, target, b, t) IN
       IF u.raised THEN u
       ELSE [u EXCEPT !.log = Append(@, Event("MOVE", b, target)),
                      !.is_entry_halted = FALSE]
  ELSE IF ~is_full(s, target)
  THEN [add_basket(s, target, b)
          EXCEPT !.log = Append(@, Event("WAIT", b, target)),
                 !.is_entry_halted = FALSE]
  ELSE [s EXCEPT !.is_entry_halted = TRUE,
                 !.active_baskets = RemoveFirst(@, b),
                 !.log = Append(@, Event("HALT", b, target))]

detect_and_manage_collision_loads_unchecked(s, b, t) ==
  LET target == next_station(s, b) IN
  IF target = NoStation
  THEN [s EXCEPT !.finish_time[b] = t,
                 !.log = Append(@, Event("DONE", b, NoStation)),
                 !.active_baskets = RemoveFirst(@, b),
                 !.finished_baskets = Append(@, b)]
  ELSE IF target \notin StationSet
  THEN Logged(s, Event("ERROR", b, target))
  ELSE IF s.queue[target] = <<>>
  THEN LET u == load_basket(s, target, b, t) IN
       IF u.raised THEN u
       ELSE [u EXCEPT !.log = Append(@, Event("MOVE", b, target)),
                      !.is_entry_halted = FALSE]
  ELSE IF ~is_full(s, target)
  THEN [add_basket(s, target, b)
          EXCEPT !.log = Append(@, Event("WAIT", b, target)),
                 !.is_entry_halted = FALSE]
  ELSE [s EXCEPT !.is_entry_halted = TRUE,
                 !.log = Append(@, Event("HALT", b, target))]

detect_and_manage_collision_done_resumes(s, b, t) ==
  LET target == next_station(s, b) IN
  IF target = NoStation
  THEN [s EXCEPT !.finish_time[b] = t,
                 !.log = Append(@, Event("DONE", b, NoStation)),
                 !.active_baskets = RemoveFirst(@, b),
                 !.finished_baskets = Append(@, b),
                 !.is_entry_halted = FALSE]
  ELSE IF target \notin StationSet
  THEN Logged(s, Event("ERROR", b, target))
  ELSE IF s.is_available[target]
  THEN LET u == load_basket(s, target, b, t) IN
       IF u.raised THEN u
       ELSE [u EXCEPT !.log = Append(@, Event("MOVE", b, target)),
                      !.is_entry_halted = FALSE]
  ELSE IF ~is_full(s, target)
  THEN [add_basket(s, target, b)
          EXCEPT !.log = Append(@, Event("WAIT", b, target)),
                 !.is_entry_halted = FALSE]
  ELSE [s EXCEPT !.is_entry_halted = TRUE,
                 !.log = Append(@, Event("HALT", b, target))]

detect_and_manage_collision_error_drops(s, b, t) ==
  LET target == next_station(s, b) IN
  IF target = NoStation
  THEN [s EXCEPT !.finish_time[b] = t,
                 !.log = Append(@, Event("DONE", b, NoStation)),
                 !.active_baskets = RemoveFirst(@, b),
                 !.finished_baskets = Append(@, b)]
  ELSE IF target \notin StationSet
  THEN [s EXCEPT !.log = Append(@, Event("ERROR", b, target)),
                 !.active_baskets = RemoveFirst(@, b),
                 !.is_entry_halted = TRUE]
  ELSE IF s.is_available[target]
  THEN LET u == load_basket(s, target, b, t) IN
       IF u.raised THEN u
       ELSE [u EXCEPT !.log = Append(@, Event("MOVE", b, target)),
                      !.is_entry_halted = FALSE]
  ELSE IF ~is_full(s, target)
  THEN [add_basket(s, target, b)
          EXCEPT !.log = Append(@, Event("WAIT", b, target)),
                 !.is_entry_halted = FALSE]
  ELSE [s EXCEPT !.is_entry_halted = TRUE,
                 !.log = Append(@, Event("HALT", b, target))]

detect_and_manage_collision(s, b, t) ==
  LET target == next_station(s, b) IN
  IF target = NoStation
  THEN [s EXCEPT !.finish_time[b] = t,
                 !.log = Append(@, Event("DONE", b, NoStation)),
                 !.active_baskets = RemoveFirst(@, b),
                 !.finished_baskets = Append(@, b)]
  ELSE IF target \notin StationSet
  THEN Logged(s, Event("ERROR", b, target))
  ELSE IF s.is_available[target]
  THEN LET u == load_basket(s, target, b, t) IN
       IF u.raised THEN u
       ELSE [u EXCEPT !.log = Append(@, Event("MOVE", b, target)),
                      !.is_entry_halted = FALSE]
  ELSE IF ~is_full(s, target)
  THEN [add_basket(s, target, b)
          EXCEPT !.log = Append(@, Event("WAIT", b, target)),
                 !.is_entry_halted = FALSE]
  ELSE [s EXCEPT !.is_entry_halted = TRUE,
                 !.log = Append(@, Event("HALT", b, target))]

(* simulate_tick, step 1: release one basket from the entry point *)
entry_release(s, t) ==
  IF s.entry_queue # <<>> /\ ~s.is_entry_halted
  THEN LET b == Head(s.entry_queue)
           u == [s EXCEPT !.entry_queue = Tail(@),
                          !.log = Append(@, Event("ENTRY", b, NoStation))]
       IN detect_and_manage_collision(u, b, t)
  ELSE s

(* simulate_tick, step 2: the loop over station_names *)
RECURSIVE process_stations(_, _, _, _)
process_stations(s, names, released, t) ==
  IF names = <<>> \/ s.raised
  THEN [sys |-> s, released |-> released]
  ELSE LET name == Head(names)
           f == finish_processing(s, name, t)
       IN IF f.basket = None
          THEN process_stations(s, Tail(names), released, t)
          ELSE LET u == Logged(f.sys, Event("SIGNAL", f.basket, name))
                   g == get_next_basket(u, name)
                   v == IF g.basket = None THEN u
                        ELSE LET w == load_basket(g.sys, name, g.basket, t) IN
                             IF w.raised THEN w
                             ELSE Logged(w, Event("FROM_WAITING", g.basket, name))
               IN process_stations(v, Tail(names),
                                   Append(released, f.basket), t)

(* simulate_tick, step 3: the loop over released_baskets_from_station *)
RECURSIVE route_released_backwards(_, _, _)
route_released_backwards(s, released, t) ==
  IF released = <<>> \/ s.raised
  THEN s
  ELSE route_released_backwards(
         detect_and_manage_collision(s, released[Len(released)], t),
         SubSeq(released, 1, Len(released) - 1), t)

RECURSIVE route_released(_, _, _)
route_released(s, released, t) ==
  IF released = <<>> \/ s.raised
  THEN s
  ELSE route_released(detect_and_manage_collision(s, Head(released), t),
                      Tail(released), t)

simulate_tick_stations_first(s, t) ==
  LET p == process_stations(s, station_names, <<>>, t)
      r == route_released(p.sys, p.released, t)
  IN entry_release(r, t)

simulate_tick(s, t) ==
  LET a == entry_release(s, t)
      p == process_stations(a, station_names, <<>>, t)
  IN route_released(p.sys, p.released, t)

(* run_simulation clears the log before every tick *)
run_tick(s, t) == simulate_tick([s EXCEPT !.log = <<>>], t)

all_finished(s) == s.active_baskets = <<>> /\ s.entry_queue = <<>>

(* --------------------------- configurations ---------------------------- *)
(* The run of __main__.  Clock unit: half a second, so that the processing *)
(* times 2.0, 3.0, 1.5 and the tick interval 1.0 are the integers below.   *)
RefStations == <<"A", "B", "C">>
RefTimes == [n \in {"A", "B", "C"} |->
               IF n = "A" THEN 4 ELSE IF n = "B" THEN 6 ELSE 3]
RefBaskets == << <<"A", "B">>, <<"A", "C">>, <<"B", "C", "A">>,
                 <<"A">>, <<"C", "B">>, <<"A", "B", "C">> >>
RefConfig ==
  [station_names |-> RefStations, processing_time |-> RefTimes,
   capacity |-> 1, baskets_data |-> RefBaskets,
   total_ticks |-> 30, tick_interval |-> 2, jitter |-> RefJitter]

(* Small configurations: two stations, routes that may repeat a station,   *)
(* be empty, or name the unconfigured station "X".                         *)
Routes == { <<>>, <<"A">>, <<"B">>, <<"A", "B">>, <<"B", "A">>, <<"X">> }

(* Three baskets that contend for one station and its waiting zone,       *)
(* a fourth that waits behind them in the entry queue, and a route that    *)
(* leaves the configured stations after its first station.                 *)
Contended ==
  { << <<"A">>, <<"A">>, <<"A">> >>,
    << <<"A", "B">>, <<"B">>, <<"B">> >>,
    << <<"B">>, <<"B">>, <<"A", "B">> >>,
    << <<"A">>, <<"A">>, <<"A">>, <<"B">> >>,
    << <<"A", "X">>, <<"A">> >> }

BasketLists(n) == Contended \cup UNION {[1..k -> Routes] : k \in 1..n}

SmallConfigs(n, ticks) ==
  [station_names : {<<"A", "B">>},
   processing_time : [{"A", "B"} -> 1..MaxProc],
   capacity : 1..MaxCapacity,
   baskets_data : BasketLists(n),
   total_ticks : {ticks},
   tick_interval : {1},
   jitter : {MaxJitter}]

IsReference == baskets_data = RefBaskets /\ station_names = RefStations

(* Real time between two ticks: time.sleep(tick_interval) plus the time    *)
(* the tick and the drawing take, at most `jitter' in a run.               *)
Delays == tick_interval .. (tick_interval + jitter)

(* ------------------------------ behaviour ------------------------------ *)
InitWith(configs) ==
  /\ \E c \in configs :
       /\ station_names = c.station_names
       /\ processing_time = c.processing_time
       /\ capacity = c.capacity
       /\ baskets_data = c.baskets_data
       /\ total_ticks = c.total_ticks
       /\ tick_interval = c.tick_interval
       /\ jitter = c.jitter
  /\ entry_queue = <<>> /\ active_baskets = <<>> /\ finished_baskets = <<>>
  /\ log = <<>> /\ is_entry_halted = FALSE
  /\ current_basket = [n \in StationSet |-> None]
  /\ is_available = [n \in StationSet |-> TRUE]
  /\ station_finish_time = [n \in StationSet |-> 0]
  /\ queue = [n \in StationSet |-> <<>>]
  /\ next_station_index = <<>> /\ location = <<>>
  /\ completed_stations = <<>> /\ start_time = <<>> /\ finish_time = <<>>
  /\ raised = FALSE
  /\ now = 0 /\ tick = 0 /\ pc = "constructed"
  /\ twin = [sys |-> Constructed, now |-> EpochShift]
  /\ clocks_agree = TRUE

Init == InitWith({RefConfig} \cup SmallConfigs(MaxBaskets, MaxTicks))

Initialize ==
  /\ pc = "constructed"
  /\ SetSys(initialize_baskets(Sys, 1, now))
  /\ pc' = "running"
  /\ UNCHANGED <<config, now, tick, twin, clocks_agree>>

(* one iteration of run_simulation's loop *)
Tick(d) ==
  /\ pc = "running"
  /\ tick < total_ticks
  /\ ~all_finished(Sys)
  /\ now' = now + d
  /\ tick' = tick + 1
  /\ SetSys(run_tick(Sys, now + d))
  /\ pc' = IF raised' THEN "crashed" ELSE "running"
  /\ UNCHANGED <<config, twin, clocks_agree>>

(* run_simulation leaves its loop *)
Finish ==
  /\ pc = "running"
  /\ (tick >= total_ticks \/ all_finished(Sys))
  /\ pc' = "done"
  /\ UNCHANGED <<config, sysvars, now, tick, twin, clocks_agree>>

Next == Initialize \/ (\E d \in Delays : Tick(d)) \/ Finish

Spec == Init /\ [][Next]_vars

(* Two runs of the same configuration, stepped tick for tick; the second   *)
(* starts at another reading of the clock and its ticks take their own     *)
(* real time.                                                              *)
InitTwin == InitWith(SmallConfigs(TwinBaskets, TwinTicks))

TwinInitialize ==
  /\ pc = "constructed"
  /\ SetSys(initialize_baskets(Sys, 1, now))
  /\ twin' = [twin EXCEPT !.sys = initialize_baskets(twin.sys, 1, twin.now)]
  /\ pc' = "running"
  /\ UNCHANGED <<config, now, tick, clocks_agree>>

TwinTick(d, e) ==
  /\ pc = "running"
  /\ tick < total_ticks
  /\ ~all_finished(Sys) /\ ~all_finished(twin.sys)
  /\ now' = now + d
  /\ tick' = tick + 1
  /\ SetSys(run_tick(Sys, now + d))
  /\ twin' = [sys |-> run_tick(twin.sys, twin.now + e), now |-> twin.now + e]
  /\ clocks_agree' = (clocks_agree /\ d = e)
  /\ pc' = IF raised' \/ twin'.sys.raised THEN "crashed" ELSE "running"
  /\ UNCHANGED config

TwinFinish ==
  /\ pc = "running"
  /\ (tick >= total_ticks \/ all_finished(Sys) \/ all_finished(twin.sys))
  /\ pc' = "done"
  /\ UNCHANGED <<config, sysvars, now, tick, twin, clocks_agree>>

NextTwin ==
  TwinInitialize \/ (\E d, e \in Delays : TwinTick(d, e)) \/ TwinFinish

SpecTwin == InitTwin /\ [][NextTwin]_vars

(* ------------------------- vocabulary of the properties ------------------------ *)
Created == pc # "constructed"

ValidRoutes == \A b \in Baskets : Range(baskets_data[b]) \subseteq StationSet

InBuffers(b) ==
  Cardinality({p \in UNION {{n} \X DOMAIN queue[n] : n \in StationSet} :
                 queue[p[1]][p[2]] = b})

InStations(b) == Cardinality({n \in StationSet : current_basket[n] = b})

(* the number of containers (entry queue, station slots, waiting zones,    *)
(* finished list) that hold basket b, counted with multiplicity            *)
Holders(b) ==
  Count(entry_queue, b) + InStations(b) + InBuffers(b)
    + Count(finished_baskets, b)

Kind(e) == e[1]
BasketOf(e) == e[2]
PlaceOf(e) == e[3]

RoutingKinds == {"DONE", "ERROR", "MOVE", "WAIT", "HALT"}

Events(l, kind) == {i \in DOMAIN l : Kind(l[i]) = kind}

Pos(name) == CHOOSE i \in 1..Len(station_names) : station_names[i] = name

Admitted == SelectSeq(active_baskets, LAMBDA b : Count(entry_queue, b) = 0)

(* --------------------------------- C1 ---------------------------------- *)
(* C1, as stated: after initialize_baskets and after every tick, the sizes *)
(* of the entry queue, the active list and the finished list add up to the *)
(* number of baskets created, each basket being in exactly one of them.    *)
C1_Conservation ==
  Created =>
    /\ Len(entry_queue) + Len(active_baskets) + Len(finished_baskets)
         = Len(baskets_data)
    /\ \A b \in Baskets :
         Count(entry_queue, b) + Count(active_baskets, b)
           + Count(finished_baskets, b) = 1

(* C1, amended: the active list also holds the baskets of the entry queue; *)
(* the entry queue, the active baskets that are not in the entry queue,    *)
(* and the finished list add up to the number of baskets created, each     *)
(* basket being in exactly one of the three.                               *)
C1_ConservationAmended ==
  Created =>
    /\ Len(entry_queue) + Len(Admitted) + Len(finished_baskets)
         = Len(baskets_data)
    /\ \A b \in Baskets :
         Count(entry_queue, b) + Count(Admitted, b)
           + Count(finished_baskets, b) = 1
    /\ Range(entry_queue) \subseteq Range(active_baskets)

C1_Witness ==
  /\ pc = "running"
  /\ entry_queue # <<>>
  /\ finished_baskets # <<>>
  /\ Admitted # <<>>

(* --------------------------------- C2 ---------------------------------- *)
(* C2: at every tick boundary each created basket is held by exactly one   *)
(* container: the entry queue, one station, one waiting zone or the        *)
(* finished list.  Stated for configurations whose routes name configured  *)
(* stations only.                                                          *)
C2_OneContainer ==
  (Created /\ ValidRoutes) => \A b \in Baskets : Holders(b) = 1

(* --------------------------------- C3 ---------------------------------- *)
(* C3: a basket whose routing decision ended Halted in this tick is still  *)
(* held by exactly one container, and is back at the front of the entry    *)
(* queue when it was popped from there.                                    *)
C3_NoLossOnHalt ==
  (pc = "running" /\ ValidRoutes) =>
    \A i \in Events(log, "HALT") :
      /\ Holders(BasketOf(log[i])) = 1
      /\ (\E j \in Events(log, "ENTRY") : BasketOf(log[j]) = BasketOf(log[i]))
           => (entry_queue # <<>> /\ Head(entry_queue) = BasketOf(log[i]))

(* --------------------------------- C4 ---------------------------------- *)
(* C4: the run of the reference configuration ends with all six baskets in *)
(* the finished list and with the entry queue and the active list empty.   *)
C4_ReferenceCompletes ==
  (IsReference /\ pc = "done") =>
    /\ Len(finished_baskets) = Len(RefBaskets)
    /\ entry_queue = <<>>
    /\ active_baskets = <<>>

(* --------------------------------- C5 ---------------------------------- *)
(* C5: the baskets located in a station are exactly the one in its slot    *)
(* (none when the station is available), and no waiting zone is longer     *)
(* than its capacity.                                                      *)
C5_SingleOccupancy ==
  Created =>
    \A n \in StationSet :
      /\ {b \in Baskets : location[b] = <<"In_Station_", n>>}
           = (IF current_basket[n] = None THEN {} ELSE {current_basket[n]})
      /\ is_available[n] <=> current_basket[n] = None
      /\ Len(queue[n]) <= capacity

C5_Witness ==
  /\ Events(log, "FROM_WAITING") # {}
  /\ Events(log, "MOVE") # {}
  /\ \E n \in StationSet :
       current_basket[n] # None /\ Len(queue[n]) = capacity

(* --------------------------------- C6 ---------------------------------- *)
(* C6: a basket's cursor starts at 0 and in every tick grows by the number *)
(* of times the basket was released from a station in that tick (0 or 1);  *)
(* nothing else changes it.                                                *)
C6_CursorCountsReleases ==
  /\ [](pc = "running" /\ tick = 0 =>
          \A b \in Baskets : next_station_index[b] = 0)
  /\ [][tick' # tick =>
          \A b \in Baskets :
            LET n == Cardinality({i \in Events(log', "SIGNAL") :
                                    BasketOf(log'[i]) = b})
            IN n <= 1 /\ next_station_index'[b] = next_station_index[b] + n
       ]_vars

C6_Witness ==
  /\ \E i \in Events(log, "SIGNAL") :
       next_station_index[BasketOf(log[i])] = 2
  /\ \E b \in Baskets :
       next_station_index[b] = 0 /\ location[b] # <<"Entry Point">>

(* --------------------------------- C7 ---------------------------------- *)
(* C7: a basket is in the finished list at most once, exactly when its     *)
(* finish time is set, and then its cursor is at the end of its route and  *)
(* no other container holds it; its finish time is set in the tick that    *)
(* logs its one DONE, and a finished basket never changes again.           *)
C7_FinishedOnce ==
  /\ [](Created =>
          \A b \in Baskets :
            /\ Count(finished_baskets, b) <= 1
            /\ Count(finished_baskets, b) = 1 <=> finish_time[b] # NoTime
            /\ finish_time[b] # NoTime =>
                 /\ next_station_index[b] = Len(baskets_data[b])
                 /\ b \notin Range(entry_queue) \cup Range(active_baskets)
                 /\ \A n \in StationSet :
                      current_basket[n] # b /\ b \notin Range(queue[n]))
  /\ [][tick' # tick =>
          \A b \in Baskets :
            LET done == {i \in Events(log', "DONE") : BasketOf(log'[i]) = b}
            IN /\ finish_time[b] # NoTime =>
                    /\ finish_time'[b] = finish_time[b]
                    /\ next_station_index'[b] = next_station_index[b]
                    /\ location'[b] = location[b]
                    /\ completed_stations'[b] = completed_stations[b]
                    /\ \A i \in DOMAIN log' : BasketOf(log'[i]) # b
               /\ finish_time[b] = NoTime =>
                    /\ Cardinality(done) <= 1
                    /\ done # {} <=> finish_time'[b] # NoTime
                    /\ done # {} => finish_time'[b] = now'
       ]_vars

C7_Witness ==
  /\ pc = "running"
  /\ log # <<>>
  /\ \E b \in Baskets :
       /\ finish_time[b] # NoTime
       /\ finish_time[b] < now
       /\ Len(baskets_data[b]) = 2

Observable(s, t) ==
  [entry_queue |-> s.entry_queue, active_baskets |-> s.active_baskets,
   finished_baskets |-> s.finished_baskets, log |-> s.log,
   is_entry_halted |-> s.is_entry_halted,
   current_basket |-> s.current_basket, is_available |-> s.is_available,
   queue |-> s.queue, next_station_index |-> s.next_station_index,
   location |-> s.location, completed_stations |-> s.completed_stations,
   raised |-> s.raised,
   remaining |-> [n \in StationSet |->
                    IF s.current_basket[n] = None THEN 0
                    ELSE s.station_finish_time[n] - t],
   took |-> [b \in DOMAIN s.finish_time |->
               IF s.finish_time[b] = NoTime THEN NoTime
               ELSE s.finish_time[b] - s.start_time[b]]]

C10_RoutedBeforeNextRelease ==
  \A i, j \in Events(log, "SIGNAL") :
    i < j =>
      \E k \in DOMAIN log :
        /\ i < k /\ k < j
        /\ Kind(log[k]) \in RoutingKinds
        /\ BasketOf(log[k]) = BasketOf(log[i])

(* C10, amended: all stations are asked to release, in configuration       *)
(* order, before any released basket is routed; the released baskets then  *)
(* go through their routing decisions in the order of their stations.      *)
C10_RoutedAfterAllReleases ==
  \A i, j \in Events(log, "SIGNAL") :
    i < j =>
      /\ Pos(PlaceOf(log[i])) < Pos(PlaceOf(log[j]))
      /\ \E k, l \in DOMAIN log :
           /\ j < k /\ k < l
           /\ Kind(log[k]) \in RoutingKinds
           /\ BasketOf(log[k]) = BasketOf(log[i])
           /\ Kind(log[l]) \in RoutingKinds
           /\ BasketOf(log[l]) = BasketOf(log[j])

C10_Witness ==
  /\ Cardinality(Events(log, "SIGNAL")) >= 2
  /\ Events(log, "FROM_WAITING") # {}

(* --------------------------------- C11 --------------------------------- *)
(* C11: a tick admits at most one basket from the entry queue, and its     *)
(* admission and routing decision come first in the tick, before any       *)
(* station is asked to release; so a basket admitted towards a station     *)
(* that releases in the same tick found it occupied (it waits or halts).   *)
C11_EntryBeforeReleases ==
  /\ Cardinality(Events(log, "ENTRY")) <= 1
  /\ \A i \in Events(log, "ENTRY") :
       /\ i = 1
       /\ Len(log) >= 2
       /\ Kind(log[2]) \in RoutingKinds
       /\ BasketOf(log[2]) = BasketOf(log[1])
       /\ \A j \in Events(log, "SIGNAL") :
            /\ j > 2
            /\ PlaceOf(log[j]) = PlaceOf(log[2]) =>
                 Kind(log[2]) \in {"WAIT", "HALT"}

C11_Witness ==
  /\ Events(log, "ENTRY") # {}
  /\ entry_queue # <<>>
  /\ \E j \in Events(log, "SIGNAL") :
       PlaceOf(log[j]) = PlaceOf(log[2]) /\ Kind(log[2]) = "WAIT"

(* --------------------------------- C12 --------------------------------- *)
(* a basket that left the entry queue and whose next route entry names no  *)
(* configured station                                                      *)
Stuck(b) ==
  /\ Count(entry_queue, b) = 0
  /\ next_station(Sys, b) \notin StationSet \cup {NoStation}

(* C12: a routing decision that meets a route entry naming no configured   *)
(* station logs an error and nothing else: the basket stays in the active  *)
(* list and is in no station, waiting zone or finished list; a tick that   *)
(* does nothing but admit such a basket leaves stations, waiting zones and *)
(* the halt flag as they were; and with a stuck basket around, ticks go on *)
(* admitting from the entry queue and releasing stations that are due.     *)
C12_ErrorLeavesBasketStuck ==
  [][tick' # tick =>
       /\ \A b \in Baskets :
            \A i \in Events(log', "ERROR") :
              BasketOf(log'[i]) = b =>
                Stuck(b)' /\ PlaceOf(log'[i]) = next_station(Sys, b)'
       /\ \A b \in Baskets :
            Stuck(b)' =>
              /\ Count(active_baskets', b) = 1
              /\ Count(finished_baskets', b) = 0
              /\ \A n \in StationSet :
                   current_basket'[n] # b /\ Count(queue'[n], b) = 0
       /\ (Len(log') = 2 /\ Kind(log'[2]) = "ERROR") =>
            UNCHANGED <<current_basket, is_available, station_finish_time,
                        queue, is_entry_halted, finished_baskets,
                        active_baskets>>
       /\ (\E b \in Baskets : Stuck(b)) =>
            /\ (entry_queue # <<>> /\ ~is_entry_halted) =>
                 /\ entry_queue' = Tail(entry_queue)
                 /\ log'[1] = Event("ENTRY", Head(entry_queue), NoStation)
            /\ \A n \in StationSet :
                 (current_basket[n] # None
                    /\ now' >= station_finish_time[n]) =>
                   \E j \in Events(log', "SIGNAL") :
                     log'[j] = Event("SIGNAL", current_basket[n], n)
  ]_vars

C12_Witness ==
  /\ Created
  /\ \E b \in Baskets :
       /\ Stuck(b)
       /\ Count(active_baskets, b) = 1
       /\ \E i \in Events(log, "DONE") : BasketOf(log[i]) > b

(* --------------------------------- C13 --------------------------------- *)
(* C13, as stated: initialize_baskets accepts no configuration in which a  *)
(* route names a station outside the station configuration, so no routing  *)
(* decision ever logs an error.                                            *)
C13_InvalidRoutesRejected ==
  /\ Created => ValidRoutes
  /\ Events(log, "ERROR") = {}

(* --------------------------------- C14 --------------------------------- *)
(* the last event of log l that is a placement or a halt, 0 if none        *)
LastPlacement(l) ==
  LET D == {i \in DOMAIN l : Kind(l[i]) \in {"MOVE", "WAIT", "HALT"}}
  IN IF D = {} THEN 0 ELSE CHOOSE i \in D : \A j \in D : j <= i

(* C14: is_entry_halted is written by routing decisions only: a halt sets  *)
(* it, a load or an enqueue (of any basket, for any station) clears it,    *)
(* and finishing, errors, releases and handoffs leave it alone, so after a *)
(* tick it is what the tick's last placement or halt made it, or what it   *)
(* was; a tick that starts with the flag set takes nothing from the entry  *)
(* queue.                                                                  *)
C14_HaltFlagSticky ==
  [][tick' # tick =>
       /\ is_entry_halted' =
            IF LastPlacement(log') = 0 THEN is_entry_halted
            ELSE Kind(log'[LastPlacement(log')]) = "HALT"
       /\ is_entry_halted =>
            entry_queue' = entry_queue /\ Events(log', "ENTRY") = {}
  ]_vars

C14_Witness ==
  /\ is_entry_halted
  /\ entry_queue # <<>>
  /\ Events(log, "HALT") = {}
  /\ Events(log, "SIGNAL") # {}
  /\ Events(log, "DONE") # {}

(* --------------------------------- C15 --------------------------------- *)
(* the events of log l that load a basket into station n                   *)
Loads(l, n) ==
  {i \in DOMAIN l : Kind(l[i]) \in {"MOVE", "FROM_WAITING"}
                      /\ PlaceOf(l[i]) = n}

C16_LoadNeverRaises ==
  /\ ~raised
  /\ pc # "crashed"
  /\ Created => \A n \in StationSet :
                  is_available[n] <=> current_basket[n] = None

C16_Witness ==
  /\ ~raised
  /\ Events(log, "FROM_WAITING") # {}
  /\ Events(log, "MOVE") # {}
  /\ Events(log, "WAIT") # {}
  /\ \A n \in StationSet : current_basket[n] # None

(* --------------------------------- C17 --------------------------------- *)
(* C17, as stated: a station is occupied exactly when its deadline is set  *)
(* and not in the past; a release clears the deadline, so an empty station *)
(* carries none.                                                           *)
C17_DeadlineIffOccupied ==
  Created =>
    \A n \in StationSet :
      /\ current_basket[n] # None <=>
           (station_finish_time[n] # NoDeadline
              /\ station_finish_time[n] >= now)
      /\ current_basket[n] = None => station_finish_time[n] = NoDeadline

(* C17, as the code has it: between ticks a station is occupied exactly    *)
(* when its deadline is later than the clock reading of the last tick; an  *)
(* empty station keeps the deadline of its last occupant, which has been   *)
(* reached, or the initial value.                                          *)
C17_DeadlineAheadIffOccupied ==
  Created =>
    \A n \in StationSet :
      /\ current_basket[n] # None <=> station_finish_time[n] > now
      /\ current_basket[n] = None =>
           \/ station_finish_time[n] = NoDeadline
           \/ \E b \in Baskets :
                /\ n \in Range(SubSeq(baskets_data[b], 1,
                                      next_station_index[b]))
                /\ station_finish_time[n] <= now

C17_Witness ==
  /\ \E n \in StationSet :
       current_basket[n] = None /\ station_finish_time[n] # NoDeadline
  /\ \E n \in StationSet :
       current_basket[n] # None /\ Loads(log, n) = {}

(* --------------------------------- C18 --------------------------------- *)
(* the waiting zone of station n as the station loop of the tick that      *)
(* wrote log l finds it: the zone before the tick, q, and behind it the    *)
(* basket the entry step of that tick queued there, if any                 *)
ZoneAtRelease(q, l, n) ==
  IF Len(l) >= 2 /\ Kind(l[1]) = "ENTRY" /\ Kind(l[2]) = "WAIT"
     /\ PlaceOf(l[2]) = n
  THEN Append(q, BasketOf(l[2]))
  ELSE q

(* the routing decisions of log l that were taken for released baskets     *)
ReleaseRoutings(l) ==
  {j \in DOMAIN l : Kind(l[j]) \in RoutingKinds
                      /\ ~(j = 2 /\ Kind(l[1]) = "ENTRY")}

C19_NoHaltWithIdleStations ==
  ~ /\ Created
    /\ ValidRoutes
    /\ is_entry_halted
    /\ entry_queue # <<>>
    /\ \A n \in StationSet : current_basket[n] = None /\ queue[n] = <<>>

=============================================================================
